---- MODULE Spec2Model ----
(***************************************************************************)
(* Model of derek_mcp/matcher.py: the keyword matcher of Derek MCP.        *)
(*                                                                         *)
(* Text is a sequence of one-character strings, so that tokenizing,        *)
(* stemming, phrase detection and template substitution are computed on    *)
(* characters as the Python code computes them.  Scores are fixed-point    *)
(* numbers: ONE units make 1.0.                                            *)
(***************************************************************************)
EXTENDS Integers, Sequences, FiniteSets, TLC

\* ------------------------------------------------------------------------
\* Bounds of the model
\* ------------------------------------------------------------------------

\* the largest number of identifiers recorded in one behaviour
MaxRecorded == 11

\* ------------------------------------------------------------------------
\* Fixed-point arithmetic
\* ------------------------------------------------------------------------

\* units per 1.0 of a Python float score
ONE == 1000000

\* math.log(n) for the corpus sizes and keyword counts of the model,
\* in units of 1/ONE, rounded to the nearest unit
LnTable == <<0, 693147, 1098612, 1386294, 1609438, 1791759, 1945910, 2079442>>

\* math.log(num / den)
Ln(num, den) == LnTable[num] - LnTable[den]

Max(a, b) == IF a >= b THEN a ELSE b

Range(s) == {s[i] : i \in DOMAIN s}

\* ------------------------------------------------------------------------
\* SYNONYM DICTIONARY
\* ------------------------------------------------------------------------

SYNONYMS ==
    (<<"b", "i", "k", "e">> :> <<<<"b", "i", "c", "y", "c", "l", "e">>, <<"c", "y", "c", "l", "i", "n", "g">>, <<"c", "y", "c", "l", "e">>, <<"r", "i", "d", "e">>, <<"c", "y", "c", "l", "i", "s", "t">>>>) @@
    (<<"c", "y", "c", "l", "i", "n", "g">> :> <<<<"b", "i", "k", "e">>, <<"b", "i", "c", "y", "c", "l", "e">>, <<"r", "i", "d", "e">>, <<"c", "y", "c", "l", "i", "s", "t">>>>) @@
    (<<"r", "i", "d", "e">> :> <<<<"c", "y", "c", "l", "i", "n", "g">>, <<"b", "i", "k", "e">>, <<"b", "i", "c", "y", "c", "l", "e">>>>) @@
    (<<"e", "x", "e", "r", "c", "i", "s", "e">> :> <<<<"w", "o", "r", "k", "o", "u", "t">>, <<"f", "i", "t", "n", "e", "s", "s">>, <<"t", "r", "a", "i", "n">>, <<"g", "y", "m">>>>) @@
    (<<"r", "u", "n">> :> <<<<"r", "u", "n", "n", "i", "n", "g">>, <<"r", "u", "n", "n", "e", "r">>, <<"j", "o", "g">>, <<"m", "a", "r", "a", "t", "h", "o", "n">>>>) @@
    (<<"s", "m", "a", "r", "t">> :> <<<<"i", "n", "t", "e", "l", "l", "i", "g", "e", "n", "t">>, <<"c", "l", "e", "v", "e", "r">>, <<"b", "r", "i", "g", "h", "t">>, <<"g", "e", "n", "i", "u", "s">>, <<"b", "r", "i", "l", "l", "i", "a", "n", "t">>>>) @@
    (<<"s", "t", "u", "p", "i", "d">> :> <<<<"d", "u", "m", "b">>, <<"i", "d", "i", "o", "t">>, <<"f", "o", "o", "l", "i", "s", "h">>, <<"i", "g", "n", "o", "r", "a", "n", "t">>>>) @@
    (<<"i", "n", "t", "e", "l", "l", "i", "g", "e", "n", "t">> :> <<<<"s", "m", "a", "r", "t">>, <<"c", "l", "e", "v", "e", "r">>, <<"b", "r", "i", "g", "h", "t">>>>) @@
    (<<"k", "n", "o", "w">> :> <<<<"k", "n", "o", "w", "l", "e", "d", "g", "e">>, <<"u", "n", "d", "e", "r", "s", "t", "a", "n", "d">>, <<"c", "o", "m", "p", "r", "e", "h", "e", "n", "d">>, <<"a", "w", "a", "r", "e">>>>) @@
    (<<"p", "h", "d">> :> <<<<"d", "o", "c", "t", "o", "r", "a", "t", "e">>, <<"d", "i", "s", "s", "e", "r", "t", "a", "t", "i", "o", "n">>, <<"t", "h", "e", "s", "i", "s">>, <<"d", "o", "c", "t", "o", "r", "a", "l">>>>) @@
    (<<"t", "h", "e", "s", "i", "s">> :> <<<<"d", "i", "s", "s", "e", "r", "t", "a", "t", "i", "o", "n">>, <<"p", "h", "d">>, <<"r", "e", "s", "e", "a", "r", "c", "h">>>>) @@
    (<<"p", "a", "p", "e", "r">> :> <<<<"p", "u", "b", "l", "i", "c", "a", "t", "i", "o", "n">>, <<"m", "a", "n", "u", "s", "c", "r", "i", "p", "t">>, <<"a", "r", "t", "i", "c", "l", "e">>>>) @@
    (<<"r", "e", "s", "e", "a", "r", "c", "h">> :> <<<<"s", "t", "u", "d", "y">>, <<"i", "n", "v", "e", "s", "t", "i", "g", "a", "t", "i", "o", "n">>, <<"a", "n", "a", "l", "y", "s", "i", "s">>>>) @@
    (<<"m", "o", "l", "e", "c", "u", "l", "e">> :> <<<<"m", "o", "l", "e", "c", "u", "l", "a", "r">>, <<"c", "o", "m", "p", "o", "u", "n", "d">>, <<"c", "h", "e", "m", "i", "c", "a", "l">>, <<"s", "t", "r", "u", "c", "t", "u", "r", "e">>>>) @@
    (<<"m", "o", "l", "e", "c", "u", "l", "a", "r">> :> <<<<"m", "o", "l", "e", "c", "u", "l", "e">>, <<"c", "o", "m", "p", "o", "u", "n", "d">>, <<"c", "h", "e", "m", "i", "s", "t", "r", "y">>>>) @@
    (<<"d", "r", "u", "g">> :> <<<<"c", "o", "m", "p", "o", "u", "n", "d">>, <<"m", "o", "l", "e", "c", "u", "l", "e">>, <<"p", "h", "a", "r", "m", "a", "c", "e", "u", "t", "i", "c", "a", "l">>>>) @@
    (<<"s", "y", "n", "t", "h", "e", "s", "i", "s">> :> <<<<"s", "y", "n", "t", "h", "e", "s", "i", "z", "e">>, <<"r", "e", "a", "c", "t", "i", "o", "n">>, <<"c", "h", "e", "m", "i", "c", "a", "l">>>>) @@
    (<<"a", "i">> :> <<<<"a", "r", "t", "i", "f", "i", "c", "i", "a", "l", " ", "i", "n", "t", "e", "l", "l", "i", "g", "e", "n", "c", "e">>, <<"m", "a", "c", "h", "i", "n", "e", " ", "l", "e", "a", "r", "n", "i", "n", "g">>, <<"m", "l">>, <<"n", "e", "u", "r", "a", "l", " ", "n", "e", "t", "w", "o", "r", "k">>>>) @@
    (<<"m", "o", "d", "e", "l">> :> <<<<"n", "e", "u", "r", "a", "l", " ", "n", "e", "t", "w", "o", "r", "k">>, <<"a", "l", "g", "o", "r", "i", "t", "h", "m">>, <<"m", "l">>>>) @@
    (<<"t", "r", "a", "i", "n">> :> <<<<"t", "r", "a", "i", "n", "i", "n", "g">>, <<"l", "e", "a", "r", "n", "i", "n", "g">>, <<"o", "p", "t", "i", "m", "i", "z", "a", "t", "i", "o", "n">>>>) @@
    (<<"f", "o", "o", "d">> :> <<<<"e", "a", "t">>, <<"m", "e", "a", "l">>, <<"n", "u", "t", "r", "i", "t", "i", "o", "n">>, <<"d", "i", "e", "t">>>>) @@
    (<<"l", "u", "n", "c", "h">> :> <<<<"m", "e", "a", "l">>, <<"e", "a", "t">>, <<"d", "i", "n", "n", "e", "r">>, <<"b", "r", "e", "a", "k", "f", "a", "s", "t">>>>) @@
    (<<"w", "o", "r", "k">> :> <<<<"j", "o", "b">>, <<"r", "e", "s", "e", "a", "r", "c", "h">>, <<"c", "a", "r", "e", "e", "r">>, <<"e", "m", "p", "l", "o", "y", "m", "e", "n", "t">>>>) @@
    (<<"j", "o", "b">> :> <<<<"w", "o", "r", "k">>, <<"p", "o", "s", "i", "t", "i", "o", "n">>, <<"e", "m", "p", "l", "o", "y", "m", "e", "n", "t">>, <<"c", "a", "r", "e", "e", "r">>>>) @@
    (<<"p", "e", "d", "a", "n", "t", "i", "c">> :> <<<<"p", "e", "d", "a", "n", "t", "r", "y">>, <<"n", "i", "t", "p", "i", "c", "k">>, <<"c", "o", "r", "r", "e", "c", "t">>, <<"p", "r", "e", "c", "i", "s", "e">>>>) @@
    (<<"c", "o", "r", "r", "e", "c", "t">> :> <<<<"r", "i", "g", "h", "t">>, <<"a", "c", "c", "u", "r", "a", "t", "e">>, <<"p", "r", "e", "c", "i", "s", "e">>, <<"f", "i", "x">>>>) @@
    (<<"w", "r", "o", "n", "g">> :> <<<<"i", "n", "c", "o", "r", "r", "e", "c", "t">>, <<"m", "i", "s", "t", "a", "k", "e">>, <<"e", "r", "r", "o", "r">>, <<"f", "a", "l", "s", "e">>>>) @@
    (<<"g", "o", "o", "d">> :> <<<<"g", "r", "e", "a", "t">>, <<"e", "x", "c", "e", "l", "l", "e", "n", "t">>, <<"n", "i", "c", "e">>, <<"w", "o", "n", "d", "e", "r", "f", "u", "l">>>>) @@
    (<<"b", "a", "d">> :> <<<<"t", "e", "r", "r", "i", "b", "l", "e">>, <<"a", "w", "f", "u", "l">>, <<"p", "o", "o", "r">>, <<"n", "e", "g", "a", "t", "i", "v", "e">>>>) @@
    (<<"t", "h", "i", "n", "k">> :> <<<<"b", "e", "l", "i", "e", "v", "e">>, <<"c", "o", "n", "s", "i", "d", "e", "r">>, <<"o", "p", "i", "n", "i", "o", "n">>, <<"t", "h", "o", "u", "g", "h", "t">>>>) @@
    (<<"s", "a", "y">> :> <<<<"t", "e", "l", "l">>, <<"s", "p", "e", "a", "k">>, <<"t", "a", "l", "k">>, <<"m", "e", "n", "t", "i", "o", "n">>>>)

\* ------------------------------------------------------------------------
\* TEXT PROCESSING FUNCTIONS
\* ------------------------------------------------------------------------

LowerCase == <<"a", "b", "c", "d", "e", "f", "g", "h", "i", "j", "k", "l", "m",
               "n", "o", "p", "q", "r", "s", "t", "u", "v", "w", "x", "y", "z">>

UpperCase == <<"A", "B", "C", "D", "E", "F", "G", "H", "I", "J", "K", "L", "M",
               "N", "O", "P", "Q", "R", "S", "T", "U", "V", "W", "X", "Y", "Z">>

Digits == {"0", "1", "2", "3", "4", "5", "6", "7", "8", "9"}

\* the characters the regular expression class \w matches
IsWordChar(c) == c \in Range(LowerCase) \cup Range(UpperCase) \cup Digits \cup {"_"}

\* the characters str.strip() removes
IsSpace(c) == c \in {" ", "\t", "\n"}

\* str.lower() on one character
LowerChar(c) ==
    IF c \in Range(UpperCase)
    THEN LowerCase[CHOOSE i \in DOMAIN UpperCase : UpperCase[i] = c]
    ELSE c

\* str.lower()
Lower(text) == [i \in DOMAIN text |-> LowerChar(text[i])]

\* str.strip()
RECURSIVE LStrip(_)
LStrip(text) ==
    IF text # <<>> /\ IsSpace(Head(text)) THEN LStrip(Tail(text)) ELSE text

RECURSIVE RStrip(_)
RStrip(text) ==
    IF text # <<>> /\ IsSpace(text[Len(text)])
    THEN RStrip(SubSeq(text, 1, Len(text) - 1))
    ELSE text

Strip(text) == RStrip(LStrip(text))

\* re.findall(r'\b\w+\b', text): the maximal runs of word characters, in order;
\* cur is the run being read
RECURSIVE FindWords(_, _)
FindWords(text, cur) ==
    IF text = <<>>
    THEN IF cur = <<>> THEN <<>> ELSE <<cur>>
    ELSE IF IsWordChar(Head(text))
         THEN FindWords(Tail(text), Append(cur, Head(text)))
         ELSE (IF cur = <<>> THEN <<>> ELSE <<cur>>) \o FindWords(Tail(text), <<>>)

\* str.endswith
EndsWith(word, suffix) ==
    /\ Len(word) >= Len(suffix)
    /\ SubSeq(word, Len(word) - Len(suffix) + 1, Len(word)) = suffix

suffixes == <<<<"i", "n", "g", "s">>, <<"i", "n", "g">>, <<"i", "e", "s">>, <<"i", "e", "d">>, <<"e", "d">>, <<"e", "s">>, <<"s">>, <<"l", "y">>, <<"e", "r">>, <<"e", "s", "t">>>>

\* a loop that stops at the first suffix the word ends with, whatever it
\* leaves
RECURSIVE StemFromFirstMatch(_, _)
StemFromFirstMatch(word, i) ==
    IF i > Len(suffixes)
    THEN word
    ELSE IF EndsWith(word, suffixes[i])
         THEN IF Len(word) - Len(suffixes[i]) >= 3
              THEN SubSeq(word, 1, Len(word) - Len(suffixes[i]))
              ELSE word
         ELSE StemFromFirstMatch(word, i + 1)

\* the loop of simple_stem from suffix number i on
RECURSIVE StemFrom(_, _)
StemFrom(word, i) ==
    IF i > Len(suffixes)
    THEN word
    ELSE IF EndsWith(word, suffixes[i]) /\ Len(word) - Len(suffixes[i]) >= 3
         THEN SubSeq(word, 1, Len(word) - Len(suffixes[i]))
         ELSE StemFrom(word, i + 1)

simple_stem(word) == IF Len(word) <= 3 THEN word ELSE StemFrom(word, 1)

tokenize(text) == Range(FindWords(Lower(text), <<>>))

enhanced_tokenize(text) ==
    LET tokens == tokenize(text)
        stems == {simple_stem(token) : token \in tokens}
        synonyms == UNION {UNION {tokenize(syn_phrase) : syn_phrase \in Range(SYNONYMS[token])} :
                             token \in tokens \cap DOMAIN SYNONYMS}
    IN  tokens \cup stems \cup synonyms

phrase_patterns == <<
    <<"m", "a", "c", "h", "i", "n", "e", " ", "l", "e", "a", "r", "n", "i", "n", "g">>,
    <<"a", "r", "t", "i", "f", "i", "c", "i", "a", "l", " ", "i", "n", "t", "e", "l", "l", "i", "g", "e", "n", "c", "e">>,
    <<"n", "e", "u", "r", "a", "l", " ", "n", "e", "t", "w", "o", "r", "k">>,
    <<"a", "c", "t", "i", "v", "e", " ", "l", "e", "a", "r", "n", "i", "n", "g">>,
    <<"d", "r", "u", "g", " ", "d", "i", "s", "c", "o", "v", "e", "r", "y">>,
    <<"m", "o", "l", "e", "c", "u", "l", "a", "r", " ", "p", "r", "o", "p", "e", "r", "t", "y">>,
    <<"p", "h", "d", " ", "c", "a", "n", "d", "i", "d", "a", "t", "e">>,
    <<"p", "e", "e", "r", " ", "r", "e", "v", "i", "e", "w">>,
    <<"o", "u", "t", " ", "o", "f", " ", "d", "i", "s", "t", "r", "i", "b", "u", "t", "i", "o", "n">>,
    <<"k", "a", "r", "m", "a", "n", " ", "l", "i", "n", "e">>>>

\* whether pattern \b(phrase)\b matches text at position i
PhraseAt(text, phrase, i) ==
    /\ i + Len(phrase) - 1 <= Len(text)
    /\ SubSeq(text, i, i + Len(phrase) - 1) = phrase
    /\ (i = 1 \/ ~IsWordChar(text[i - 1]))
    /\ (i + Len(phrase) - 1 = Len(text) \/ ~IsWordChar(text[i + Len(phrase)]))

extract_phrases(text) ==
    LET text_lower == Lower(text)
    IN  {phrase_patterns[p] : p \in {q \in DOMAIN phrase_patterns :
            \E i \in DOMAIN text_lower : PhraseAt(text_lower, phrase_patterns[q], i)}}

\* ------------------------------------------------------------------------
\* Dictionaries and lists
\* ------------------------------------------------------------------------

\* dict.get(key, default)
Get(d, key, default) == IF key \in DOMAIN d THEN d[key] ELSE default

\* seq[:k]
Take(seq, k) == SubSeq(seq, 1, IF k < Len(seq) THEN k ELSE Len(seq))

\* sum(scores), the scores being the first components of the pairs of seq
RECURSIVE SumScores(_)
SumScores(seq) == IF seq = <<>> THEN 0 ELSE Head(seq)[1] + SumScores(Tail(seq))

\* one step of list.sort(reverse=True, key=lambda x: x[0]): x goes behind the
\* elements whose score is at least its own (the sort is stable)
RECURSIVE InsertDesc(_, _)
InsertDesc(sorted, x) ==
    IF sorted = <<>>
    THEN <<x>>
    ELSE IF Head(sorted)[1] >= x[1]
         THEN <<Head(sorted)>> \o InsertDesc(Tail(sorted), x)
         ELSE <<x>> \o sorted

\* list.sort(reverse=True, key=lambda x: x[0])
RECURSIVE SortDesc(_)
SortDesc(seq) ==
    IF seq = <<>>
    THEN <<>>
    ELSE InsertDesc(SortDesc(SubSeq(seq, 1, Len(seq) - 1)), seq[Len(seq)])

\* ------------------------------------------------------------------------
\* Corpora and inputs of the model
\* ------------------------------------------------------------------------

\* two records whose keywords all have the floor weight
BikeData ==
    [responses |-> <<
        [id |-> "r1", category |-> "lifestyle", keywords |-> <<<<"b", "i", "k", "e">>, <<"r", "i", "d", "e">>>>,
         response |-> <<"I", " ", "r", "i", "d", "e", ".">>, sass_level |-> 6],
        [id |-> "r2", category |-> "research", keywords |-> <<<<"p", "h", "d">>, <<"t", "h", "e", "s", "i", "s">>>>,
         response |-> <<"M", "y", " ", "t", "h", "e", "s", "i", "s", ".">>, sass_level |-> 8]>>,
     fallback_responses |-> <<>>,
     meta_responses |-> [greeting |-> <<"H", "e", "l", "l", "o", ".">>]]

\* three records; a and b clear the threshold on their keyword, c only
\* matches by stem and stays below it
MainData ==
    [responses |-> <<
        [id |-> "a", category |-> "lifestyle", keywords |-> <<<<"b", "i", "k", "e">>>>,
         response |-> <<"A", "h", ",", " ", "{", "u", "s", "e", "r", "_", "p", "h", "r", "a", "s", "e", "}", ".">>, sass_level |-> 6],
        [id |-> "b", category |-> "research", keywords |-> <<<<"t", "h", "e", "s", "i", "s">>>>,
         response |-> <<"T", "h", "e", "s", "i", "s", ".">>, follow_up |-> <<"S", "o", ":", " ", "{", "u", "s", "e", "r", "_", "i", "n", "p", "u", "t", "}">>, sass_level |-> 8],
        [id |-> "c", category |-> "research", keywords |-> <<<<"c", "y", "c", "l", "e", "s">>, <<"m", "o", "l", "e", "c", "u", "l", "e">>>>,
         response |-> <<"C", "y", "c", "l", "e", "s", ".">>, sass_level |-> 3]>>,
     fallback_responses |-> <<
        [response |-> <<"W", "h", "a", "t", "?">>, sass_level |-> 4],
        [response |-> <<"H", "m", ".">>, sass_level |-> 7]>>,
     meta_responses |-> [greeting |-> <<"H", "e", "l", "l", "o", ".">>, goodbye |-> <<"B", "y", "e", ".">>]]

\* a corpus whose record m lacks the response field
MalformedData ==
    [responses |-> <<
        [id |-> "m", category |-> "food", keywords |-> <<<<"l", "u", "n", "c", "h">>>>, sass_level |-> 2],
        [id |-> "x1", category |-> "research", keywords |-> <<<<"d", "r", "u", "g">>>>,
         response |-> <<"D", "r", "u", "g", "s", ".">>, sass_level |-> 5],
        [id |-> "x2", category |-> "research", keywords |-> <<<<"p", "a", "p", "e", "r">>>>,
         response |-> <<"P", "a", "p", "e", "r", "s", ".">>, sass_level |-> 5]>>,
     fallback_responses |-> <<[response |-> <<"W", "h", "a", "t", "?">>, sass_level |-> 4]>>,
     meta_responses |-> [greeting |-> <<"H", "e", "l", "l", "o", ".">>]]

\* a record with an empty keyword list and a record without keyword list,
\* next to a record that matches
KeywordlessData ==
    [responses |-> <<
        [id |-> "k0", category |-> "misc", keywords |-> <<>>,
         response |-> <<"N", "o", "t", "h", "i", "n", "g", ".">>, sass_level |-> 1],
        [id |-> "k1", category |-> "misc", response |-> <<"M", "i", "s", "s", "i", "n", "g", ".">>, sass_level |-> 1],
        [id |-> "g", category |-> "food", keywords |-> <<<<"l", "u", "n", "c", "h">>>>,
         response |-> <<"L", "u", "n", "c", "h", ".">>, sass_level |-> 2]>>,
     fallback_responses |-> <<[response |-> <<"W", "h", "a", "t", "?">>, sass_level |-> 4]>>,
     meta_responses |-> [greeting |-> <<"H", "e", "l", "l", "o", ".">>]]

\* the keyword bike is counted three times in two records: twice in d1, in
\* two letter cases, and once in d2
DupData ==
    [responses |-> <<
        [id |-> "d1", category |-> "lifestyle", keywords |-> <<<<"B", "i", "k", "e">>, <<"b", "i", "k", "e">>, <<"r", "i", "d", "e">>>>,
         response |-> <<"B", "i", "k", "e", "s", ".">>, sass_level |-> 6],
        [id |-> "d2", category |-> "lifestyle", keywords |-> <<<<"b", "i", "k", "e">>>>,
         response |-> <<"B", "i", "k", "e", ".">>, sass_level |-> 6]>>,
     fallback_responses |-> <<[response |-> <<"W", "h", "a", "t", "?">>, sass_level |-> 4]>>,
     meta_responses |-> [greeting |-> <<"H", "e", "l", "l", "o", ".">>]]

\* a corpus of one record
SingleData ==
    [responses |-> <<
        [id |-> "s1", category |-> "research", keywords |-> <<<<"t", "h", "e", "s", "i", "s">>>>,
         response |-> <<"T", "h", "e", "s", "i", "s", ".">>, sass_level |-> 8]>>,
     fallback_responses |-> <<[response |-> <<"W", "h", "a", "t", "?">>, sass_level |-> 4]>>,
     meta_responses |-> [greeting |-> <<"H", "e", "l", "l", "o", ".">>]]

\* records whose texts carry the placeholders, and a text with braces that
\* carries none
TemplateData ==
    [responses |-> <<
        [id |-> "t1", category |-> "research", keywords |-> <<<<"p", "h", "d">>>>,
         response |-> <<"{", "u", "s", "e", "r", "_", "p", "h", "r", "a", "s", "e", "}", "!">>, follow_up |-> <<"{", "u", "s", "e", "r", "_", "i", "n", "p", "u", "t", "}">>, sass_level |-> 8],
        [id |-> "t2", category |-> "research", keywords |-> <<<<"p", "a", "p", "e", "r">>>>,
         response |-> <<"N", "o", " ", "{", "u", "s", "e", "r", "}", " ", "h", "e", "r", "e", ".">>, follow_up |-> <<"N", "o", "n", "e", ".">>, sass_level |-> 5],
        [id |-> "t3", category |-> "research", keywords |-> <<<<"d", "r", "u", "g">>>>,
         response |-> <<"D", "r", "u", "g", "s", ".">>, sass_level |-> 5]>>,
     fallback_responses |-> <<[response |-> <<"W", "h", "a", "t", "?">>, sass_level |-> 4]>>,
     meta_responses |-> [greeting |-> <<"H", "e", "l", "l", "o", ".">>]]

\* three records clear the threshold for the query 'paper drug food', with
\* three different scores; p4 shares the keyword food and stays below it
PoolData ==
    [responses |-> <<
        [id |-> "p1", category |-> "research", keywords |-> <<<<"p", "a", "p", "e", "r">>>>,
         response |-> <<"P", "a", "p", "e", "r", "s", ".">>, sass_level |-> 5],
        [id |-> "p2", category |-> "research", keywords |-> <<<<"d", "r", "u", "g">>, <<"s", "m", "a", "r", "t">>>>,
         response |-> <<"D", "r", "u", "g", "s", ".">>, sass_level |-> 5],
        [id |-> "p3", category |-> "food", keywords |-> <<<<"f", "o", "o", "d">>>>,
         response |-> <<"F", "o", "o", "d", ".">>, sass_level |-> 2],
        [id |-> "p4", category |-> "food", keywords |-> <<<<"f", "o", "o", "d">>, <<"p", "e", "d", "a", "n", "t", "i", "c">>, <<"w", "r", "o", "n", "g">>>>,
         response |-> <<"W", "r", "o", "n", "g", " ", "f", "o", "o", "d", ".">>, sass_level |-> 9]>>,
     fallback_responses |-> <<[response |-> <<"W", "h", "a", "t", "?">>, sass_level |-> 4]>>,
     meta_responses |-> [greeting |-> <<"H", "e", "l", "l", "o", ".">>]]

\* records whose keywords are the words of fixed phrases
PhraseData ==
    [responses |-> <<
        [id |-> "h1", category |-> "research", keywords |-> <<<<"m", "a", "c", "h", "i", "n", "e">>, <<"l", "e", "a", "r", "n", "i", "n", "g">>>>,
         response |-> <<"M", "L", ".">>, sass_level |-> 7],
        [id |-> "h2", category |-> "research",
         keywords |-> <<<<"n", "e", "u", "r", "a", "l">>, <<"n", "e", "t", "w", "o", "r", "k">>, <<"m", "o", "d", "e", "l">>>>,
         response |-> <<"N", "e", "t", "w", "o", "r", "k", "s", ".">>, sass_level |-> 7],
        [id |-> "h3", category |-> "research", keywords |-> <<<<"l", "e", "a", "r", "n", "i", "n", "g">>, <<"a", "l", "g", "o", "r", "i", "t", "h", "m">>>>,
         response |-> <<"A", "l", "g", "o", "r", "i", "t", "h", "m", "s", ".">>, sass_level |-> 7]>>,
     fallback_responses |-> <<[response |-> <<"W", "h", "a", "t", "?">>, sass_level |-> 4]>>,
     meta_responses |-> [greeting |-> <<"H", "e", "l", "l", "o", ".">>]]

\* a record without identifier and a record with the empty identifier, next
\* to a record with an identifier
NoIdData ==
    [responses |-> <<
        [category |-> "personality", keywords |-> <<<<"p", "e", "d", "a", "n", "t", "i", "c">>>>,
         response |-> <<"A", "c", "t", "u", "a", "l", "l", "y", ".">>, sass_level |-> 9],
        [id |-> "", category |-> "personality", keywords |-> <<<<"w", "r", "o", "n", "g">>>>,
         response |-> <<"W", "r", "o", "n", "g", ".">>, sass_level |-> 9],
        [id |-> "n3", category |-> "personality", keywords |-> <<<<"s", "m", "a", "r", "t">>>>,
         response |-> <<"S", "m", "a", "r", "t", ".">>, sass_level |-> 9]>>,
     fallback_responses |-> <<[response |-> <<"W", "h", "a", "t", "?">>, sass_level |-> 4]>>,
     meta_responses |-> [greeting |-> <<"H", "e", "l", "l", "o", ".">>]]

ResponsesData == {BikeData, MainData, MalformedData, KeywordlessData, DupData,
                  SingleData, TemplateData, PoolData, PhraseData, NoIdData}

BikeQuery == <<"T", "e", "l", "l", " ", "m", "e", " ", "a", "b", "o", "u", "t", " ", "y", "o", "u", "r", " ", "b", "i", "k", "e">>

BothQuery == <<"M", "y", " ", "b", "i", "k", "e", " ", "t", "h", "e", "s", "i", "s">>

UserInputs == {BikeQuery, BothQuery, <<"t", "h", "e", "s", "i", "s", "?">>, <<"l", "u", "n", "c", "h">>, <<>>, <<" ", " ">>, <<"?", "!">>}

\* a long input without any word of 4 characters
LongShortWords == <<"a", " ", "p", "h", "d", " ", "i", "s", " ", "o", "k", " ", "o", "r", " ", "n", "o", ",", " ", "s", "o", " ", "i", "t", " ", "i", "s", " ", "o", "k", " ", "t", "o", " ", "b", "e", " ", "m", "e">>

\* an input that carries a placeholder marker
MarkerInput == <<"p", "h", "d", " ", "{", "u", "s", "e", "r", "_", "p", "h", "r", "a", "s", "e", "}">>

\* two words of the greatest length, bike the first of them
TieInput == <<"p", "h", "d", " ", "b", "i", "k", "e", " ", "r", "i", "d", "e">>

\* the inputs of SpecTemplate
TemplateInputs == {<<"p", "h", "d">>, LongShortWords, TieInput, <<"M", "y", " ", "p", "h", "d", " ", "t", "h", "e", "s", "i", "s">>, MarkerInput,
                   <<"p", "a", "p", "e", "r", " ", "{", "u", "s", "e", "r", "_", "i", "n", "p", "u", "t", "}">>}

\* the query that three records of PoolData clear the threshold for
PoolQuery == <<"p", "a", "p", "e", "r", " ", "d", "r", "u", "g", " ", "f", "o", "o", "d">>

\* the inputs of SpecPool
PoolInputs == {PoolQuery, <<"p", "a", "p", "e", "r">>, <<>>}

\* the inputs whose tokens and phrases are tabulated
\* an input with a fixed phrase
PhraseQuery == <<"I", " ", "l", "i", "k", "e", " ", "m", "a", "c", "h", "i", "n", "e", " ", "l", "e", "a", "r", "n", "i", "n", "g">>

\* the inputs whose tokens score_response is called with
ScoreInputs == {BikeQuery, BothQuery, PhraseQuery, <<"n", "e", "u", "r", "a", "l", " ", "n", "e", "t", "w", "o", "r", "k", "s">>}

\* the query that all records of NoIdData clear the threshold for
NoIdQuery == <<"p", "e", "d", "a", "n", "t", "i", "c", " ", "w", "r", "o", "n", "g", " ", "s", "m", "a", "r", "t">>

\* the inputs of SpecNoId
NoIdInputs == {NoIdQuery, <<"p", "e", "d", "a", "n", "t", "i", "c">>, <<"w", "r", "o", "n", "g">>, <<"s", "m", "a", "r", "t">>, <<>>}

AllInputs == UserInputs \cup TemplateInputs \cup PoolInputs \cup ScoreInputs \cup NoIdInputs

ResponseTypes == {"standard", "greeting", "confusion"}

\* every word the model stems: the tokens of the inputs and the keywords
Vocabulary ==
    UNION {enhanced_tokenize(u) : u \in AllInputs}
      \cup UNION {UNION {{Lower(kw) : kw \in Range(Get(d.responses[r], "keywords", <<>>))} :
                          r \in DOMAIN d.responses} : d \in ResponsesData}

\* simple_stem, enhanced_tokenize and extract_phrases are pure functions of
\* their argument: their values on the words and inputs of the model are
\* tabulated once and looked up from then on
StemTable == [word \in Vocabulary |-> simple_stem(word)]

TokenTable == [user_input \in AllInputs |-> enhanced_tokenize(user_input)]

PhraseTable == [user_input \in AllInputs |-> extract_phrases(user_input)]

\* simple_stem(word)
Stem(word) == IF word \in Vocabulary THEN StemTable[word] ELSE simple_stem(word)

\* enhanced_tokenize(user_input)
Tokens(user_input) ==
    IF user_input \in AllInputs THEN TokenTable[user_input] ELSE enhanced_tokenize(user_input)

\* extract_phrases(user_input)
Phrases(user_input) ==
    IF user_input \in AllInputs THEN PhraseTable[user_input] ELSE extract_phrases(user_input)

\* the values of n find_top_matches is called with
TopNs == {1, 5}

\* the largest number of identifiers recorded in a behaviour of Spec
MaxShort == 3

\* the inputs of the long runs of SpecLong
LongInputs == {BothQuery, <<"l", "u", "n", "c", "h">>, <<>>}

\* the number of calls of the repeated query in SpecRepeat
MaxRepeat == 6

\* the appends to each of two histories
MaxTwo == 3

\* the token sets score_response is called with: those of the inputs, the
\* empty set and one word of a phrase
ScoreTokenSets == {Tokens(u) : u \in ScoreInputs} \cup {{}, {<<"m", "a", "c", "h", "i", "n", "e">>}}

\* the phrase sets score_response is called with
ScorePhraseSets == {{}, {<<"m", "a", "c", "h", "i", "n", "e", " ", "l", "e", "a", "r", "n", "i", "n", "g">>}, {<<"m", "a", "c", "h", "i", "n", "e", " ", "l", "e", "a", "r", "n", "i", "n", "g">>, <<"n", "e", "u", "r", "a", "l", " ", "n", "e", "t", "w", "o", "r", "k">>}}

\* the words simple_stem is called with
StemWords ==
    {<<"a">>, <<"b", "e", "d">>, <<"r", "e", "d", "s">>, <<"u", "s", "e", "d">>, <<"u", "s", "e", "s">>, <<"t", "i", "e", "s">>, <<"e", "y", "e", "s">>, <<"g", "o", "e", "s">>,
     <<"r", "i", "n", "g", "s">>, <<"w", "i", "n", "g", "s">>, <<"t", "h", "i", "n", "g", "s">>, <<"c", "y", "c", "l", "i", "n", "g">>, <<"c", "y", "c", "l", "e", "s">>, <<"f", "l", "i", "e", "s">>, <<"t", "r", "i", "e", "d">>,
     <<"q", "u", "i", "c", "k", "l", "y">>, <<"f", "a", "s", "t", "e", "s", "t">>, <<"p", "a", "p", "e", "r">>, <<"t", "h", "e", "s", "i", "s">>, <<"t", "e", "s", "t">>, <<"a", "l", "l", "y">>, <<"i", "n", "g", "s">>}
\* ------------------------------------------------------------------------
\* SCORING FUNCTIONS
\* ------------------------------------------------------------------------

\* response.get('keywords', [])
KeywordsOf(response) == Get(response, "keywords", <<>>)

\* keyword_counts[keyword]: the occurrences of the keyword, lowercased, in
\* all keyword lists
KeywordCount(responses_list, keyword) ==
    Cardinality(UNION {{<<r, k>> : k \in {j \in DOMAIN KeywordsOf(responses_list[r]) :
                                            Lower(KeywordsOf(responses_list[r])[j]) = keyword}} :
                       r \in DOMAIN responses_list})

\* the weights without the floor
CalculateIdfOnly(responses_list) ==
    LET counted == UNION {{Lower(kw) : kw \in Range(KeywordsOf(responses_list[r]))} :
                          r \in DOMAIN responses_list}
    IN  [keyword \in counted |->
            Ln(Len(responses_list), 1 + KeywordCount(responses_list, keyword))]

\* the weights with log(total / count), without the 1 added to the count
CalculateUnsmoothed(responses_list) ==
    LET counted == UNION {{Lower(kw) : kw \in Range(KeywordsOf(responses_list[r]))} :
                          r \in DOMAIN responses_list}
    IN  [keyword \in counted |->
            Max(ONE \div 10, Ln(Len(responses_list), KeywordCount(responses_list, keyword)))]

calculate_keyword_weights(responses_list) ==
    LET counted == UNION {{Lower(kw) : kw \in Range(KeywordsOf(responses_list[r]))} :
                          r \in DOMAIN responses_list}
        total_responses == Len(responses_list)
        idf(keyword) == Ln(total_responses, 1 + KeywordCount(responses_list, keyword))
    IN  [keyword \in counted |-> Max(ONE \div 10, idf(keyword))]

\* the lowercased keyword set of a record
KeywordSet(response) == {Lower(kw) : kw \in Range(KeywordsOf(response))}

\* whether the keyword matches by stem
StemMatch(keyword, user_tokens) ==
    \E token \in user_tokens : Stem(token) = Stem(keyword)

\* a stem match that counts like an exact match
KeywordScoreStemFull(keyword, user_tokens, weights) ==
    LET weight == Get(weights, keyword, ONE \div 2)
    IN  IF keyword \in user_tokens \/ StemMatch(keyword, user_tokens) THEN weight ELSE 0

\* what one keyword adds to the score
KeywordScore(keyword, user_tokens, weights) ==
    LET weight == Get(weights, keyword, ONE \div 2)
    IN  IF keyword \in user_tokens THEN weight
        ELSE IF StemMatch(keyword, user_tokens) THEN (weight * 7) \div 10
        ELSE 0

\* the keywords counted in matched_keywords
MatchedKeywords(keywords, user_tokens) ==
    {keyword \in keywords : keyword \in user_tokens \/ StemMatch(keyword, user_tokens)}

RECURSIVE SumKeywordScores(_, _, _)
SumKeywordScores(keywords, user_tokens, weights) ==
    IF keywords = {}
    THEN 0
    ELSE LET keyword == CHOOSE k \in keywords : TRUE
         IN  KeywordScore(keyword, user_tokens, weights)
               + SumKeywordScores(keywords \ {keyword}, user_tokens, weights)

\* the phrases that earn the bonus
BonusPhrases(user_phrases, keywords) ==
    {phrase \in user_phrases : tokenize(phrase) \subseteq keywords}

\* a scorer that lets a record without keywords match anything at half a point
ScoreResponseWildcard(user_tokens, user_phrases, response, weights) ==
    LET keywords == KeywordSet(response)
        score == SumKeywordScores(keywords, user_tokens, weights)
                   + (ONE \div 2) * Cardinality(BonusPhrases(user_phrases, keywords))
    IN  IF keywords = {} THEN ONE \div 2
        ELSE IF MatchedKeywords(keywords, user_tokens) # {}
             THEN score \div Cardinality(keywords)
             ELSE 0

\* a scorer that normalizes and returns the sum also when no keyword matched
ScoreResponseAlwaysNormalized(user_tokens, user_phrases, response, weights) ==
    LET keywords == KeywordSet(response)
        score == SumKeywordScores(keywords, user_tokens, weights)
                   + (ONE \div 2) * Cardinality(BonusPhrases(user_phrases, keywords))
    IN  IF keywords = {} THEN 0 ELSE score \div Cardinality(keywords)

score_response(user_tokens, user_phrases, response, weights) ==
    LET keywords == KeywordSet(response)
        score == SumKeywordScores(keywords, user_tokens, weights)
                   + (ONE \div 2) * Cardinality(BonusPhrases(user_phrases, keywords))
    IN  IF keywords = {} THEN 0
        ELSE IF MatchedKeywords(keywords, user_tokens) # {}
             THEN score \div Cardinality(keywords)
             ELSE 0

\* list(recent_ids).index(response_id): the deque lists its oldest entry
\* first, and index returns the first occurrence, counted from 0
Position(recent_ids, response_id) ==
    (CHOOSE i \in DOMAIN recent_ids :
        /\ recent_ids[i] = response_id
        /\ \A j \in 1..(i - 1) : recent_ids[j] # response_id) - 1

\* a penalty that takes the whole score of the entry at position 0
PenalizedWhole(score, position, window) ==
    (score * (10 * window - 10 * (window - position))) \div (10 * window)

\* a penalty of position / window: nothing is left at position 0
PenalizedLinear(score, position, window) == (score * position) \div window

\* score * (1.0 - (0.7 * (1.0 - position / recency_window)))
Penalized(score, position, window) ==
    (score * (10 * window - 7 * (window - position))) \div (10 * window)

\* a penalty that removes the recently used candidates from the list
ApplyRecencyPenaltyDropRecent(scored_responses, recent_ids, window) ==
    SelectSeq(scored_responses, LAMBDA x : Get(x[2], "id", "") \notin Range(recent_ids))

apply_recency_penalty(scored_responses, recent_ids, window) ==
    [c \in DOMAIN scored_responses |->
        LET score == scored_responses[c][1]
            response == scored_responses[c][2]
            response_id == Get(response, "id", "")
        IN  IF response_id \in Range(recent_ids)
            THEN <<Penalized(score, Position(recent_ids, response_id), window), response>>
            ELSE <<score, response>>]

\* ------------------------------------------------------------------------
\* TEMPLATE APPLICATION
\* ------------------------------------------------------------------------

\* a replace that loses the characters behind the last place it looked at
RECURSIVE ReplaceDropTail(_, _, _)
ReplaceDropTail(text, old, new) ==
    IF Len(text) < Len(old)
    THEN <<>>
    ELSE IF SubSeq(text, 1, Len(old)) = old
         THEN new \o ReplaceDropTail(SubSeq(text, Len(old) + 1, Len(text)), old, new)
         ELSE <<Head(text)>> \o ReplaceDropTail(Tail(text), old, new)

\* str.replace(old, new): every occurrence, left to right, not overlapping
RECURSIVE Replace(_, _, _)
Replace(text, old, new) ==
    IF Len(text) < Len(old)
    THEN text
    ELSE IF SubSeq(text, 1, Len(old)) = old
         THEN new \o Replace(SubSeq(text, Len(old) + 1, Len(text)), old, new)
         ELSE <<Head(text)>> \o Replace(Tail(text), old, new)

\* the last token of the greatest length
LongestTokenLast(tokens) ==
    tokens[CHOOSE i \in DOMAIN tokens :
              /\ \A j \in DOMAIN tokens : Len(tokens[j]) <= Len(tokens[i])
              /\ \A j \in (i + 1)..Len(tokens) : Len(tokens[j]) < Len(tokens[i])]

\* max(tokens, key=len): the first token of the greatest length
LongestToken(tokens) ==
    tokens[CHOOSE i \in DOMAIN tokens :
              /\ \A j \in DOMAIN tokens : Len(tokens[j]) <= Len(tokens[i])
              /\ \A j \in 1..(i - 1) : Len(tokens[j]) < Len(tokens[i])]

\* vars_dict['user_phrase']
UserPhrase(user_input) ==
    LET tokens == SelectSeq(FindWords(user_input, <<>>), LAMBDA w : Len(w) >= 4)
    IN  IF tokens # <<>> THEN LongestToken(tokens) ELSE Take(user_input, 30)

\* template_vars is None at every call site; the dict is filled, and so
\* iterated, in the order user_input, user_phrase
apply_template(response_text, user_input) ==
    Replace(Replace(response_text, <<"{", "u", "s", "e", "r", "_", "i", "n", "p", "u", "t", "}">>, user_input),
            <<"{", "u", "s", "e", "r", "_", "p", "h", "r", "a", "s", "e", "}">>, UserPhrase(user_input))

\* ------------------------------------------------------------------------
\* MAIN MATCHER CLASS
\* ------------------------------------------------------------------------

VARIABLES
    responses,            \* self.responses
    fallback_responses,   \* self.fallback_responses
    meta_responses,       \* self.meta_responses
    keyword_weights,      \* self.keyword_weights
    recent_responses,     \* self.recent_responses, oldest entry first
    threshold,            \* self.threshold
    top_n,                \* self.top_n
    recency_window,       \* self.recency_window
    call,                 \* the last call: method and arguments
    top_matches,          \* the list the last find_top_matches returned
    selected_response,    \* the record the last get_response drew
    result,               \* the dictionary the last get_response returned
    outcome,              \* how the last call ended
    recorded,             \* every identifier appended to the history so far
    peer_recent_responses \* recent_responses of a second ResponseMatcher, built
                          \* from the same responses_data

vars == <<responses, fallback_responses, meta_responses, keyword_weights,
          recent_responses, threshold, top_n, recency_window,
          call, top_matches, selected_response, result, outcome, recorded,
          peer_recent_responses>>

matcher == <<responses, fallback_responses, meta_responses, keyword_weights,
             threshold, top_n, recency_window>>

\* deque(maxlen=10)
HistoryCapacity == 10

\* stands for "no record" and "no dictionary"
NoResponse == [none |-> TRUE]

NoCall == [op |-> "none", user_input |-> <<>>, response_type |-> "standard", n |-> 0]

\* ResponseMatcher.__init__
Init ==
    /\ \E responses_data \in ResponsesData :
          /\ responses = Get(responses_data, "responses", <<>>)
          /\ fallback_responses = Get(responses_data, "fallback_responses", <<>>)
          /\ meta_responses = Get(responses_data, "meta_responses", <<>>)
    /\ keyword_weights = calculate_keyword_weights(responses)
    /\ recent_responses = <<>>
    /\ threshold = ONE \div 5
    /\ top_n = 5
    /\ recency_window = 5
    /\ call = NoCall
    /\ top_matches = <<>>
    /\ selected_response = NoResponse
    /\ result = NoResponse
    /\ outcome = "none"
    /\ recorded = <<>>
    /\ peer_recent_responses = <<>>

\* an append to a deque without maxlen
DequeAppendUnbounded(deque, x) == Append(deque, x)

\* deque.appendleft with maxlen
DequeAppendLeft(deque, x) ==
    IF Len(deque) >= HistoryCapacity
    THEN <<x>> \o SubSeq(deque, 1, Len(deque) - 1)
    ELSE <<x>> \o deque

\* deque.append with maxlen: the oldest entry leaves at capacity
DequeAppend(deque, x) ==
    IF Len(deque) >= HistoryCapacity
    THEN Append(Tail(deque), x)
    ELSE Append(deque, x)

\* the histories of the two instances
Histories == [self |-> recent_responses, peer |-> peer_recent_responses]

\* one deque that all instances share, as a class attribute would be
AppendToShared(instance, response_id) ==
    [i \in {"self", "peer"} |-> DequeAppend(Histories[instance], response_id)]

\* self.recent_responses.append(response_id): __init__ gave every instance a
\* deque of its own, and the append reaches the deque of the called instance
AppendTo(instance, response_id) ==
    [Histories EXCEPT ![instance] = DequeAppend(@, response_id)]

\* the scored records without the comparison to the threshold
ScoredResponsesUnfiltered(user_input) ==
    [r \in DOMAIN responses |->
        <<score_response(Tokens(user_input), Phrases(user_input), responses[r],
                         keyword_weights), responses[r]>>]

\* the records that score at least the threshold, with their scores, in
\* corpus order
ScoredResponses(user_input) ==
    LET user_tokens == Tokens(user_input)
        user_phrases == Phrases(user_input)
        scored == [r \in DOMAIN responses |->
                     <<score_response(user_tokens, user_phrases, responses[r],
                                      keyword_weights), responses[r]>>]
    IN  SelectSeq(scored, LAMBDA x : x[1] >= threshold)

\* a pool that keeps every survivor
PenaltyPoolAll(scored_responses, n) == SortDesc(scored_responses)

\* scored_responses[:n*2] after the first sort: the candidates the penalty
\* is applied to
PenaltyPool(scored_responses, n) == Take(SortDesc(scored_responses), n * 2)

\* find_top_matches of an instance whose history is recent_ids
TopMatchesWith(recent_ids, user_input, n) ==
    IF Strip(user_input) = <<>>
    THEN <<>>
    ELSE LET scored_responses == ScoredResponses(user_input)
         IN  IF scored_responses = <<>>
             THEN <<>>
             ELSE Take(SortDesc(apply_recency_penalty(PenaltyPool(scored_responses, n),
                                                      recent_ids, recency_window)), n)

find_top_matches(user_input, n) == TopMatchesWith(recent_responses, user_input, n)

\* a call of find_top_matches from outside the matcher
FindTopMatches(user_input, n) ==
    /\ call' = [op |-> "find_top_matches", user_input |-> user_input,
                response_type |-> "standard", n |-> n]
    /\ top_matches' = find_top_matches(user_input, n)
    /\ outcome' = "list"
    /\ selected_response' = NoResponse
    /\ result' = NoResponse
    /\ UNCHANGED <<matcher, recent_responses, recorded, peer_recent_responses>>

\* a meta branch whose default text is the user input
GetMetaResponseEcho(user_input, response_type) ==
    /\ response_type # "standard"
    /\ call' = [op |-> "get_response", user_input |-> user_input,
                response_type |-> response_type, n |-> 0]
    /\ result' = [response |-> Get(meta_responses, response_type, user_input),
                  sass_level |-> 5]
    /\ outcome' = "meta"
    /\ selected_response' = NoResponse
    /\ UNCHANGED <<matcher, recent_responses, recorded, top_matches,
                   peer_recent_responses>>

\* get_response with a response type other than 'standard'
GetMetaResponse(user_input, response_type) ==
    /\ response_type # "standard"
    /\ call' = [op |-> "get_response", user_input |-> user_input,
                response_type |-> response_type, n |-> 0]
    /\ result' = [response |-> Get(meta_responses, response_type, <<>>), sass_level |-> 5]
    /\ outcome' = "meta"
    /\ selected_response' = NoResponse
    /\ UNCHANGED <<matcher, recent_responses, recorded, top_matches,
                   peer_recent_responses>>

\* the dictionary get_response builds from the selected record
ResponseDict(selected, user_input) ==
    [key \in DOMAIN selected |->
        IF key \in {"response", "follow_up"}
        THEN apply_template(selected[key], user_input)
        ELSE selected[key]]

\* weights = [s / total_score for s in scores], as fractions
Weights(matches) ==
    [c \in DOMAIN matches |-> [num |-> matches[c][1], den |-> SumScores(matches)]]

\* a selection that always takes the first candidate instead of drawing
GetMatchedResponseTopOnly(user_input, matches) ==
    /\ matches # <<>>
    /\ top_matches' = matches
    /\ selected_response' = matches[1][2]
    /\ LET response_id == Get(matches[1][2], "id", "")
       IN  IF response_id # ""
           THEN /\ recent_responses' = AppendTo("self", response_id).self
                /\ peer_recent_responses' = AppendTo("self", response_id).peer
                /\ recorded' = Append(recorded, response_id)
           ELSE UNCHANGED <<recent_responses, recorded, peer_recent_responses>>
    /\ IF "response" \in DOMAIN matches[1][2]
       THEN /\ result' = ResponseDict(matches[1][2], user_input)
            /\ outcome' = "match"
       ELSE /\ result' = NoResponse
            /\ outcome' = "KeyError"

\* a selection that records the identifier without testing it
GetMatchedResponseAlwaysAppend(user_input, matches) ==
    /\ matches # <<>>
    /\ top_matches' = matches
    /\ \E c \in DOMAIN matches :
          /\ matches[c][1] > 0
          /\ selected_response' = matches[c][2]
          /\ recent_responses' = DequeAppend(recent_responses, Get(matches[c][2], "id", ""))
          /\ recorded' = Append(recorded, Get(matches[c][2], "id", ""))
          /\ IF "response" \in DOMAIN matches[c][2]
             THEN /\ result' = ResponseDict(matches[c][2], user_input)
                  /\ outcome' = "match"
             ELSE /\ result' = NoResponse
                  /\ outcome' = "KeyError"
    /\ UNCHANGED peer_recent_responses

\* get_response('standard') when find_top_matches returned candidates:
\* random.choices draws a candidate of positive weight
GetMatchedResponse(user_input, matches) ==
    /\ matches # <<>>
    /\ top_matches' = matches
    /\ IF SumScores(matches) = 0
       THEN /\ outcome' = "ZeroDivisionError"
            /\ selected_response' = NoResponse
            /\ result' = NoResponse
            /\ UNCHANGED <<recent_responses, recorded, peer_recent_responses>>
       ELSE \E c \in DOMAIN matches :
               /\ Weights(matches)[c].num > 0
               /\ selected_response' = matches[c][2]
               /\ LET response_id == Get(matches[c][2], "id", "")
                  IN  IF response_id # ""
                      THEN /\ recent_responses' = AppendTo("self", response_id).self
                           /\ peer_recent_responses' = AppendTo("self", response_id).peer
                           /\ recorded' = Append(recorded, response_id)
                      ELSE UNCHANGED <<recent_responses, recorded, peer_recent_responses>>
               /\ IF "response" \in DOMAIN matches[c][2]
                  THEN /\ result' = ResponseDict(matches[c][2], user_input)
                       /\ outcome' = "match"
                  ELSE /\ result' = NoResponse
                       /\ outcome' = "KeyError"

\* a fallback branch without the test for an empty fallback list:
\* random.choice raises on the empty list
GetFallbackResponseUnguarded(matches) ==
    /\ matches = <<>>
    /\ top_matches' = <<>>
    /\ selected_response' = NoResponse
    /\ IF fallback_responses = <<>>
       THEN /\ result' = NoResponse
            /\ outcome' = "IndexError"
       ELSE /\ \E f \in DOMAIN fallback_responses : result' = fallback_responses[f]
            /\ outcome' = "fallback"
    /\ UNCHANGED <<recent_responses, recorded, peer_recent_responses>>

\* get_response('standard') when find_top_matches returned no candidate
GetFallbackResponse(matches) ==
    /\ matches = <<>>
    /\ top_matches' = <<>>
    /\ selected_response' = NoResponse
    /\ IF fallback_responses = <<>>
       THEN /\ result' = [response |-> <<"*", "b", "e", "e", "p", " ", "b", "o", "o", "p", "*", " ", "E", "r", "r", "o", "r", ":", " ", "N", "o", " ", "f", "a", "l", "l", "b", "a", "c", "k", " ", "r", "e", "s", "p", "o", "n", "s", "e", "s", " ", "l", "o", "a", "d", "e", "d", ".", " ", "T", "h", "i", "s", " ", "i", "s", " ", "m", "e", "t", "a", "-", "e", "m", "b", "a", "r", "r", "a", "s", "s", "i", "n", "g", ".">>, sass_level |-> 5]
            /\ outcome' = "degraded"
       ELSE /\ \E f \in DOMAIN fallback_responses : result' = fallback_responses[f]
            /\ outcome' = "fallback"
    /\ UNCHANGED <<recent_responses, recorded, peer_recent_responses>>

\* a standard get_response that substitutes into the stored record itself
\* instead of a copy of it
GetStandardResponseInPlace(user_input) ==
    /\ call' = [op |-> "get_response", user_input |-> user_input,
                response_type |-> "standard", n |-> top_n]
    /\ LET matches == find_top_matches(user_input, top_n)
       IN  \/ GetMatchedResponse(user_input, matches)
           \/ GetFallbackResponse(matches)
    /\ responses' = [r \in DOMAIN responses |->
                       IF outcome' = "match" /\ responses[r] = selected_response'
                       THEN result'
                       ELSE responses[r]]
    /\ UNCHANGED <<fallback_responses, meta_responses, keyword_weights,
                   threshold, top_n, recency_window>>

\* get_response with response type 'standard'
GetStandardResponse(user_input) ==
    /\ call' = [op |-> "get_response", user_input |-> user_input,
                response_type |-> "standard", n |-> top_n]
    /\ LET matches == find_top_matches(user_input, top_n)
       IN  \/ GetMatchedResponse(user_input, matches)
           \/ GetFallbackResponse(matches)
    /\ UNCHANGED matcher

\* ResponseMatcher.get_response
GetResponse(user_input, response_type) ==
    \/ GetMetaResponse(user_input, response_type)
    \/ /\ response_type = "standard"
       /\ GetStandardResponse(user_input)

Next ==
    \/ \E user_input \in UserInputs, n \in TopNs : FindTopMatches(user_input, n)
    \/ \E user_input \in UserInputs, response_type \in ResponseTypes :
          /\ Len(recorded) < MaxShort
          /\ GetResponse(user_input, response_type)

Spec == Init /\ [][Next]_vars

\* long runs on few inputs: the history fills up and evicts
NextLong ==
    \/ \E user_input \in LongInputs, n \in TopNs : FindTopMatches(user_input, n)
    \/ \E user_input \in LongInputs, response_type \in ResponseTypes :
          /\ Len(recorded) < MaxRecorded
          /\ GetResponse(user_input, response_type)

SpecLong == Init /\ [][NextLong]_vars

\* the inputs that exercise the template on the records of TemplateData
InitTemplate == Init /\ responses = TemplateData.responses

NextTemplate ==
    \/ \E user_input \in TemplateInputs, n \in TopNs : FindTopMatches(user_input, n)
    \/ \E user_input \in TemplateInputs, response_type \in ResponseTypes :
          /\ Len(recorded) < MaxShort
          /\ GetResponse(user_input, response_type)

SpecTemplate == InitTemplate /\ [][NextTemplate]_vars

\* the same query, issued again and again to a matcher in which exactly the
\* records a and b clear the threshold for it
InitRepeat == Init /\ responses = MainData.responses

RepeatQuery ==
    /\ call' = [op |-> "get_response", user_input |-> BothQuery,
                response_type |-> "standard", n |-> top_n]
    /\ GetMatchedResponse(BothQuery, find_top_matches(BothQuery, top_n))
    /\ UNCHANGED matcher

NextRepeat == Len(recorded) < MaxRepeat /\ RepeatQuery

SpecRepeat == InitRepeat /\ [][NextRepeat]_vars


\* the branches of get_response('standard') on the second instance
PeerStandardResponse(user_input, matches) ==
    /\ top_matches' = matches
    /\ IF matches = <<>>
       THEN /\ selected_response' = NoResponse
            /\ IF fallback_responses = <<>>
               THEN /\ result' = [response |-> <<"*", "b", "e", "e", "p", " ", "b", "o", "o", "p", "*", " ", "E", "r", "r", "o", "r", ":", " ", "N", "o", " ", "f", "a", "l", "l", "b", "a", "c", "k", " ", "r", "e", "s", "p", "o", "n", "s", "e", "s", " ", "l", "o", "a", "d", "e", "d", ".", " ", "T", "h", "i", "s", " ", "i", "s", " ", "m", "e", "t", "a", "-", "e", "m", "b", "a", "r", "r", "a", "s", "s", "i", "n", "g", ".">>, sass_level |-> 5]
                    /\ outcome' = "degraded"
               ELSE /\ \E f \in DOMAIN fallback_responses :
                          result' = fallback_responses[f]
                    /\ outcome' = "fallback"
            /\ UNCHANGED <<recent_responses, peer_recent_responses>>
       ELSE IF SumScores(matches) = 0
       THEN /\ outcome' = "ZeroDivisionError"
            /\ selected_response' = NoResponse
            /\ result' = NoResponse
            /\ UNCHANGED <<recent_responses, peer_recent_responses>>
       ELSE \E c \in DOMAIN matches :
               /\ matches[c][1] > 0
               /\ selected_response' = matches[c][2]
               /\ LET response_id == Get(matches[c][2], "id", "")
                  IN  IF response_id # ""
                      THEN /\ recent_responses' = AppendTo("peer", response_id).self
                           /\ peer_recent_responses' = AppendTo("peer", response_id).peer
                      ELSE UNCHANGED <<recent_responses, peer_recent_responses>>
               /\ IF "response" \in DOMAIN matches[c][2]
                  THEN /\ result' = ResponseDict(matches[c][2], user_input)
                       /\ outcome' = "match"
                  ELSE /\ result' = NoResponse
                       /\ outcome' = "KeyError"

\* get_response('standard') on the second instance: the same corpus, weights
\* and settings, its own history
PeerGetResponse(user_input) ==
    /\ call' = [op |-> "peer_get_response", user_input |-> user_input,
                response_type |-> "standard", n |-> top_n]
    /\ PeerStandardResponse(user_input,
                            TopMatchesWith(peer_recent_responses, user_input, top_n))
    /\ UNCHANGED <<matcher, recorded>>

\* two matchers built from the same data, called in any order
InitTwo == Init /\ responses = MainData.responses

NextTwo ==
    \/ \E user_input \in LongInputs, n \in TopNs : FindTopMatches(user_input, n)
    \/ \E user_input \in LongInputs :
          /\ Len(recorded) < MaxTwo
          /\ GetResponse(user_input, "standard")
    \/ \E user_input \in LongInputs :
          /\ Len(peer_recent_responses) < MaxTwo
          /\ PeerGetResponse(user_input)

SpecTwo == InitTwo /\ [][NextTwo]_vars

\* the names ResponseMatcher binds: the attributes __init__ sets and the
\* methods of the class
MatcherAttributes ==
    {"responses", "fallback_responses", "meta_responses", "keyword_weights",
     "recent_responses", "threshold", "top_n", "recency_window",
     "find_top_matches", "get_response"}

\* the names test_phase1_improvements.py reads from a matcher
TestAttributes ==
    {"recent_responses", "get_response", "recent_topics",
     "calculate_topic_diversity_boost"}

\* matcher.<name>: the value when the instance or its class binds the name,
\* AttributeError otherwise
GetAttr(name) ==
    /\ call' = [op |-> "getattr", name |-> name]
    /\ outcome' = IF name \in MatcherAttributes THEN "attribute" ELSE "AttributeError"
    /\ selected_response' = NoResponse
    /\ result' = NoResponse
    /\ UNCHANGED <<matcher, recent_responses, recorded, top_matches,
                   peer_recent_responses>>

\* the matcher as the test file uses it
NextTest ==
    \/ \E user_input \in UserInputs, n \in TopNs : FindTopMatches(user_input, n)
    \/ \E user_input \in UserInputs, response_type \in ResponseTypes :
          /\ Len(recorded) < MaxShort
          /\ GetResponse(user_input, response_type)
    \/ \E name \in TestAttributes : GetAttr(name)

SpecTest == Init /\ [][NextTest]_vars

\* a matcher in which three records clear the threshold for one query
InitPool == Init /\ responses = PoolData.responses

NextPool ==
    \/ \E user_input \in PoolInputs, n \in TopNs : FindTopMatches(user_input, n)
    \/ \E user_input \in PoolInputs, response_type \in ResponseTypes :
          /\ Len(recorded) < MaxShort
          /\ GetResponse(user_input, response_type)

SpecPool == InitPool /\ [][NextPool]_vars

\* a call of score_response with the weight table of the matcher
ScoreResponse(user_tokens, user_phrases, response) ==
    /\ call' = [op |-> "score_response", user_tokens |-> user_tokens,
                user_phrases |-> user_phrases, response |-> response]
    /\ result' = score_response(user_tokens, user_phrases, response, keyword_weights)
    /\ outcome' = "score"
    /\ selected_response' = NoResponse
    /\ UNCHANGED <<matcher, recent_responses, recorded, top_matches,
                   peer_recent_responses>>

\* a call of simple_stem
SimpleStem(word) ==
    /\ call' = [op |-> "simple_stem", word |-> word]
    /\ result' = simple_stem(word)
    /\ outcome' = "stem"
    /\ selected_response' = NoResponse
    /\ UNCHANGED <<matcher, recent_responses, recorded, top_matches,
                   peer_recent_responses>>

\* the pure functions, called on their own
NextPure ==
    \/ \E user_tokens \in ScoreTokenSets, user_phrases \in ScorePhraseSets :
          \E r \in DOMAIN responses :
             ScoreResponse(user_tokens, user_phrases, responses[r])
    \/ \E word \in StemWords : SimpleStem(word)

SpecPure == Init /\ [][NextPure]_vars

\* DerekCLI.get_llm_response: without LLM the matcher answers (line 493);
\* with it, the first statement of the try block reads
\* matcher.get_top_matches_for_llm, a name ResponseMatcher does not bind: the
\* AttributeError is caught by 'except Exception' and the matcher answers
GetLlmResponse(user_input, llm_available) ==
    /\ ~llm_available \/ "get_top_matches_for_llm" \notin MatcherAttributes
    /\ call' = [op |-> "get_llm_response", user_input |-> user_input,
                response_type |-> "standard", n |-> top_n,
                llm_available |-> llm_available]
    /\ LET matches == find_top_matches(user_input, top_n)
       IN  \/ GetMatchedResponse(user_input, matches)
           \/ GetFallbackResponse(matches)
    /\ UNCHANGED matcher

\* the matcher behind the command line interface
NextCli ==
    \/ \E user_input \in UserInputs, n \in TopNs : FindTopMatches(user_input, n)
    \/ \E user_input \in UserInputs, response_type \in ResponseTypes :
          /\ Len(recorded) < MaxShort
          /\ GetResponse(user_input, response_type)
    \/ \E user_input \in UserInputs, llm_available \in BOOLEAN :
          /\ Len(recorded) < MaxShort
          /\ GetLlmResponse(user_input, llm_available)

SpecCli == Init /\ [][NextCli]_vars

\* a matcher whose corpus holds records without identifier
InitNoId == Init /\ responses = NoIdData.responses

NextNoId ==
    \/ \E user_input \in NoIdInputs, n \in TopNs : FindTopMatches(user_input, n)
    \/ \E user_input \in NoIdInputs, response_type \in ResponseTypes :
          /\ Len(recorded) < MaxShort
          /\ GetResponse(user_input, response_type)

SpecNoId == InitNoId /\ [][NextNoId]_vars
\* ------------------------------------------------------------------------
\* Properties
\* ------------------------------------------------------------------------

\* the score of a record for an input before any penalty: what
\* find_top_matches gives it when the history is empty
ColdScore(response, user_input) ==
    score_response(Tokens(user_input), Phrases(user_input), response, keyword_weights)

\* the last k entries of a sequence
LastK(seq, k) == SubSeq(seq, Len(seq) - k + 1, Len(seq))

\* the index of the last occurrence of an identifier in the history
LastIndex(recent_ids, response_id) ==
    CHOOSE i \in DOMAIN recent_ids :
        /\ recent_ids[i] = response_id
        /\ \A j \in (i + 1)..Len(recent_ids) : recent_ids[j] # response_id

C2_RecencyMonotonicity ==
    (call.op = "get_response" /\ outcome = "match")
       => LET again == find_top_matches(call.user_input, top_n)
          IN  \A c \in DOMAIN again :
                 again[c][2] = selected_response
                    => again[c][1] < ColdScore(selected_response, call.user_input)

\* C3: the identifier recorded last is at position 0 and gets the multiplier
\* 0.3, and of two history members of equal pre-penalty score the one selected
\* more recently never gets the higher adjusted score.
C3_MostRecentStrongest ==
    (call.op = "find_top_matches" /\ recent_responses # <<>>)
       => /\ \A c \in DOMAIN top_matches :
                Get(top_matches[c][2], "id", "") = recent_responses[Len(recent_responses)]
                   => top_matches[c][1]
                        = (ColdScore(top_matches[c][2], call.user_input) * 3) \div 10
          /\ \A c, d \in DOMAIN top_matches :
                (/\ Get(top_matches[c][2], "id", "") \in Range(recent_responses)
                 /\ Get(top_matches[d][2], "id", "") \in Range(recent_responses)
                 /\ ColdScore(top_matches[c][2], call.user_input)
                      = ColdScore(top_matches[d][2], call.user_input)
                 /\ LastIndex(recent_responses, Get(top_matches[c][2], "id", ""))
                      > LastIndex(recent_responses, Get(top_matches[d][2], "id", "")))
                   => top_matches[c][1] <= top_matches[d][1]

\* C4: the multiplier of a history member is never below 0.3 and never above
\* 1: no adjusted score find_top_matches returns is larger than the record's
\* pre-penalty score.
C4_PenaltyNeverRaises ==
    call.op = "find_top_matches"
       => \A c \in DOMAIN top_matches :
             /\ top_matches[c][1] <= ColdScore(top_matches[c][2], call.user_input)
             /\ top_matches[c][1] >= (ColdScore(top_matches[c][2], call.user_input) * 3) \div 10

\* C5: a standard get_response on a non-empty query does not raise: it
\* returns a corpus record whose pre-penalty score is at least 0.2, or a
\* fallback, or the degraded placeholder.
C5_MatchOrFallbackNeverRaises ==
    (call.op = "get_response" /\ call.response_type = "standard" /\ call.user_input # <<>>)
       => /\ outcome \in {"match", "fallback", "degraded"}
          /\ outcome = "match"
                => /\ selected_response \in Range(responses)
                   /\ ColdScore(selected_response, call.user_input) * 5 >= ONE

\* C6: the history changes only in a standard get_response that selected a
\* matched record, and then by one append of that record's identifier (the
\* oldest entry leaving a full history); find_top_matches, meta calls and
\* calls ending in a fallback or the placeholder leave it unchanged.
C6_HistoryFrame ==
    [][/\ recent_responses' # recent_responses
           => /\ call'.op = "get_response"
              /\ call'.response_type = "standard"
              /\ outcome' \in {"match", "KeyError"}
              /\ recent_responses'
                   = Append(IF Len(recent_responses) = 10
                            THEN Tail(recent_responses) ELSE recent_responses,
                            Get(selected_response', "id", ""))
       /\ (\/ call'.op = "find_top_matches"
           \/ call'.response_type # "standard"
           \/ outcome' \in {"fallback", "degraded"})
           => recent_responses' = recent_responses]_vars

\* a matched selection appended its identifier to a full history
C6_Witness ==
    /\ outcome = "match"
    /\ Len(recorded) = 11
    /\ recent_responses[10] = Get(selected_response, "id", "")

\* C7: get_response of a type other than 'standard' returns the meta text
\* configured for the type (the empty text when none is) with sass level 5,
\* whatever the query, the corpus and the history are.
C7_MetaResponseFixed ==
    (call.op = "get_response" /\ call.response_type # "standard")
       => /\ outcome = "meta"
          /\ result = [response |-> IF call.response_type \in DOMAIN meta_responses
                                    THEN meta_responses[call.response_type]
                                    ELSE <<>>,
                       sass_level |-> 5]

\* a greeting was asked for with a query that has matches, after selections
C7_Witness ==
    /\ call.op = "get_response"
    /\ call.response_type = "greeting"
    /\ call.user_input = BothQuery
    /\ responses = MainData.responses
    /\ Len(recent_responses) = 2
    /\ result.response = <<"H", "e", "l", "l", "o", ".">>

\* C8: with the corpus of the records r1 {bike, ride} and r2 {phd, thesis},
\* get_response("Tell me about your bike") selects r1 with a non-zero score.
C8_BikeSelectsR1 ==
    (/\ responses = BikeData.responses
     /\ call.op = "get_response"
     /\ call.response_type = "standard"
     /\ call.user_input = BikeQuery)
       => /\ outcome = "match"
          /\ Get(selected_response, "id", "") = "r1"
          /\ \E c \in DOMAIN top_matches :
                Get(top_matches[c][2], "id", "") = "r1" /\ top_matches[c][1] > 0

\* C9 as claimed: six calls in a row of the query with two viable candidates
\* never select the same record every time.
C9_NeverSameSixTimes ==
    Len(recorded) = 6 => \E i, j \in DOMAIN recorded : recorded[i] # recorded[j]

\* C9 as amended: on every one of the calls both viable records are
\* candidates of positive adjusted score, so each of them is a possible
\* outcome of every call.
C9_BothCandidatesEveryCall ==
    call.op = "get_response"
       => /\ {Get(top_matches[c][2], "id", "") : c \in DOMAIN top_matches} = {"a", "b"}
          /\ \A c \in DOMAIN top_matches : top_matches[c][1] > 0

\* six calls were made and both records were selected among them
C9_Witness ==
    /\ Len(recorded) = 6
    /\ {"a", "b"} \subseteq Range(recorded)
    /\ call.user_input = BothQuery

\* C10: for a query without any word character find_top_matches returns the
\* empty list and a standard get_response returns a fallback or the degraded
\* placeholder, never a matched record and never an error.
C10_EmptyQueryNoCandidates ==
    (\A i \in DOMAIN call.user_input : call.user_input[i] \in {" ", "\t", "\n", "?", "!", ".", ","})
       => /\ call.op = "find_top_matches" => (top_matches = <<>> /\ outcome = "list")
          /\ (call.op = "get_response" /\ call.response_type = "standard")
                => (outcome \in {"fallback", "degraded"} /\ selected_response = NoResponse)

\* a punctuation-only query got a fallback although the history is not empty
C10_Witness ==
    /\ call.op = "get_response"
    /\ call.user_input = <<"?", "!">>
    /\ outcome = "fallback"
    /\ recent_responses # <<>>

\* the text of the placeholder returned when nothing else is left
DegradedText == <<"*", "b", "e", "e", "p", " ", "b", "o", "o", "p", "*", " ", "E", "r", "r", "o", "r", ":", " ", "N", "o", " ", "f", "a", "l", "l", "b", "a", "c", "k", " ", "r", "e", "s", "p", "o", "n", "s", "e", "s", " ", "l", "o", "a", "d", "e", "d", ".", " ", "T", "h", "i", "s", " ", "i", "s", " ", "m", "e", "t", "a", "-", "e", "m", "b", "a", "r", "r", "a", "s", "s", "i", "n", "g", ".">>

\* no record of the corpus clears the threshold 0.2 for the input
NoRecordClears(user_input) ==
    \A r \in DOMAIN responses : ColdScore(responses[r], user_input) * 5 < ONE

\* C11: when no record clears the threshold, a standard get_response returns
\* the marked placeholder with sass level 5 if the fallback list is empty,
\* and one of the fallback records otherwise; it does not raise.
C11_FallbackOrPlaceholder ==
    (/\ call.op = "get_response"
     /\ call.response_type = "standard"
     /\ NoRecordClears(call.user_input))
       => IF fallback_responses = <<>>
          THEN result = [response |-> DegradedText, sass_level |-> 5]
          ELSE \E f \in DOMAIN fallback_responses : result = fallback_responses[f]

\* the bike query got the placeholder from the corpus without fallbacks
C11_Witness ==
    /\ call.op = "get_response"
    /\ call.user_input = BikeQuery
    /\ fallback_responses = <<>>
    /\ outcome = "degraded"
    /\ result.sass_level = 5

\* C12: when the record that was drawn lacks the response text field,
\* get_response still returns a response object instead of raising.
C12_MissingResponseFieldNoRaise ==
    (/\ call.op = "get_response"
     /\ selected_response # NoResponse
     /\ "response" \notin DOMAIN selected_response)
       => /\ outcome # "KeyError"
          /\ result # NoResponse

\* the record has an empty keyword list or none
Keywordless(response) == KeywordsOf(response) = <<>>

\* phrase sets and weight tables a keywordless record is scored with
PhraseSets == {{}, {phrase_patterns[1]}, Range(phrase_patterns)}

WeightTables == {keyword_weights, <<>>}

\* C13: a record without keywords scores 0 for every query, phrase set and
\* weight table, is in no list find_top_matches returns and is never drawn.
C13_KeywordlessNeverMatches ==
    /\ \A r \in DOMAIN responses :
          Keywordless(responses[r])
             => \A user_input \in AllInputs, user_phrases \in PhraseSets, weights \in WeightTables :
                   score_response(Tokens(user_input), user_phrases, responses[r], weights) = 0
    /\ \A c \in DOMAIN top_matches : ~Keywordless(top_matches[c][2])
    /\ selected_response # NoResponse => ~Keywordless(selected_response)

\* the corpus with the two keywordless records gave a match, and the list
\* held the record with keywords only
C13_Witness ==
    /\ responses = KeywordlessData.responses
    /\ outcome = "match"
    /\ Get(selected_response, "id", "") = "g"
    /\ Len(top_matches) = 1

\* C14: every weight of the table is at least 0.1, also for a keyword that
\* occurs in every record or is counted more often than there are records.
C14_WeightFloor ==
    /\ responses # <<>>
    /\ \A keyword \in DOMAIN keyword_weights : keyword_weights[keyword] * 10 >= ONE
    /\ DOMAIN keyword_weights = UNION {KeywordSet(responses[r]) : r \in DOMAIN responses}

\* bike is counted 3 times in the 2 records and has the floor weight, and
\* the matcher was used
C14_Witness ==
    /\ responses = DupData.responses
    /\ KeywordCount(responses, <<"b", "i", "k", "e">>) = 3
    /\ keyword_weights[<<"b", "i", "k", "e">>] * 10 = ONE
    /\ call.op = "get_response"

\* C15: the configuration is threshold 0.2, top-N 5 and window 5, the weight
\* table is the one computed from the corpus, and no step changes the
\* configuration, the weight table, or a record of the corpus, the fallbacks
\* or the meta texts.
C15_MatcherImmutable ==
    /\ [](/\ threshold * 5 = ONE
          /\ top_n = 5
          /\ recency_window = 5
          /\ keyword_weights = calculate_keyword_weights(responses))
    /\ [][/\ responses' = responses
          /\ fallback_responses' = fallback_responses
          /\ meta_responses' = meta_responses
          /\ keyword_weights' = keyword_weights
          /\ threshold' = threshold
          /\ top_n' = top_n
          /\ recency_window' = recency_window]_vars

\* the returned text differs from the template of the record that was
\* drawn, and the corpus still holds the record with its template
C15_Witness ==
    /\ outcome = "match"
    /\ result.response # selected_response.response
    /\ \E r \in DOMAIN responses : responses[r] = selected_response

\* 'sub in text' of Python strings
Contains(text, sub) ==
    \E i \in 1..(Len(text) - Len(sub) + 1) : SubSeq(text, i, i + Len(sub) - 1) = sub

\* the text carries a placeholder marker
HasMarker(text) ==
    Contains(text, <<"{", "u", "s", "e", "r", "_", "i", "n", "p", "u", "t", "}">>) \/ Contains(text, <<"{", "u", "s", "e", "r", "_", "p", "h", "r", "a", "s", "e", "}">>)

\* C16: substitution is not recursive: a marker that comes in with the user
\* input stays as it is, so the template '{user_input}' yields the user input
\* verbatim.
C16_UserInputVerbatim ==
    (/\ outcome = "match"
     /\ Get(selected_response, "follow_up", <<>>) = <<"{", "u", "s", "e", "r", "_", "i", "n", "p", "u", "t", "}">>)
       => result.follow_up = call.user_input

\* texts without placeholder marker, some of them with braces
PlainTexts == {<<>>, <<"D", "r", "u", "g", "s", ".">>, <<"N", "o", " ", "{", "u", "s", "e", "r", "}", " ", "h", "e", "r", "e", ".">>, <<"{", "u", "s", "e", "r", "_", "i", "n", "p", "u", "t">>, <<"u", "s", "e", "r", "_", "p", "h", "r", "a", "s", "e", "}">>, <<"{", "}">>}

\* C17: apply_template returns a text without placeholder marker unchanged,
\* whatever the user input is.
C17_NoMarkerUnchanged ==
    /\ \A text \in PlainTexts, user_input \in AllInputs :
          apply_template(text, user_input) = text
    /\ outcome = "match"
          => \A key \in {"response", "follow_up"} \cap DOMAIN selected_response :
                ~HasMarker(selected_response[key]) => result[key] = selected_response[key]

\* the record t2, whose texts have braces and no marker, was returned
\* unchanged for an input that carries a marker
C17_Witness ==
    /\ outcome = "match"
    /\ call.user_input = <<"p", "a", "p", "e", "r", " ", "{", "u", "s", "e", "r", "_", "i", "n", "p", "u", "t", "}">>
    /\ Get(selected_response, "id", "") = "t2"
    /\ result.response = <<"N", "o", " ", "{", "u", "s", "e", "r", "}", " ", "h", "e", "r", "e", ".">>

\* the value the claim gives {user_phrase}: the first of the longest words of
\* at least 4 characters, or the first 30 characters of the input
ClaimedPhrase(user_input) ==
    LET words == FindWords(user_input, <<>>)
        long == {i \in DOMAIN words : Len(words[i]) >= 4}
    IN  IF long = {}
        THEN SubSeq(user_input, 1, IF Len(user_input) < 30 THEN Len(user_input) ELSE 30)
        ELSE words[CHOOSE i \in long :
                      \A j \in long : \/ Len(words[j]) < Len(words[i])
                                      \/ Len(words[j]) = Len(words[i]) /\ i <= j]

\* C18: '{user_phrase}' is replaced by the longest word of at least 4
\* characters of the user input, the first one of several, and by the first 30
\* characters of the input when it has no such word.
C18_UserPhrase ==
    (/\ outcome = "match"
     /\ selected_response.response = <<"{", "u", "s", "e", "r", "_", "p", "h", "r", "a", "s", "e", "}", "!">>)
       => /\ result.response = ClaimedPhrase(call.user_input) \o <<"!">>
          /\ call.user_input = TieInput => result.response = <<"b", "i", "k", "e", "!">>
          /\ call.user_input = LongShortWords
                => result.response = <<"a", " ", "p", "h", "d", " ", "i", "s", " ", "o", "k", " ", "o", "r", " ", "n", "o", ",", " ", "s", "o", " ", "i", "t", " ", "i", "s", " ", "o", "k", "!">>

\* the input with two longest words got the first of them
C18_Witness ==
    /\ outcome = "match"
    /\ call.user_input = TieInput
    /\ result.response = <<"b", "i", "k", "e", "!">>

\* C19: two matchers, also when built from the same corpus data, have
\* independent histories: a get_response on one of them leaves the history of
\* the other, and so the adjusted scores its find_top_matches returns,
\* unchanged.
C19_IndependentHistories ==
    [][/\ call'.op = "peer_get_response"
          => /\ matcher' = matcher
             /\ recent_responses' = recent_responses
             /\ \A user_input \in LongInputs :
                   TopMatchesWith(recent_responses', user_input, top_n)
                      = find_top_matches(user_input, top_n)
       /\ call'.op = "get_response"
          => /\ matcher' = matcher
             /\ peer_recent_responses' = peer_recent_responses
             /\ \A user_input \in LongInputs :
                   TopMatchesWith(peer_recent_responses', user_input, top_n)
                      = TopMatchesWith(peer_recent_responses, user_input, top_n)]_vars

\* the second matcher recorded a selection while the first one held a
\* different, non-empty history
C19_Witness ==
    /\ call.op = "peer_get_response"
    /\ outcome = "match"
    /\ recent_responses # <<>>
    /\ peer_recent_responses # <<>>
    /\ peer_recent_responses # recent_responses

\* C20: the matcher keeps recent_topics and offers
\* calculate_topic_diversity_boost(record), whose multiplier is below 1 for a
\* record of the category seen 5 times and above 1 for absent categories: the
\* two names the test reads from the matcher are there to be read.
C20_TopicDiversityOffered ==
    (/\ call.op = "getattr"
     /\ call.name \in {"recent_topics", "calculate_topic_diversity_boost"})
       => outcome = "attribute"

\* the number of survivors ranked before survivor i by the first sort: those
\* of a higher score, and those of the same score that come earlier in the
\* corpus
SurvivorRank(scored, i) ==
    Cardinality({j \in DOMAIN scored :
                    \/ scored[j][1] > scored[i][1]
                    \/ scored[j][1] = scored[i][1] /\ j < i})

\* C21: find_top_matches(query, n) returns at most n candidates, in descending
\* order of adjusted score, all of them among the 2n survivors of the highest
\* scores before the penalty; a survivor ranked below 2n is never returned.
C21_TopNFromPool ==
    (\/ call.op = "find_top_matches"
     \/ call.op = "get_response" /\ call.response_type = "standard")
       => LET scored == ScoredResponses(call.user_input)
          IN  /\ Len(top_matches) <= call.n
              /\ \A i \in 1..(Len(top_matches) - 1) :
                    top_matches[i][1] >= top_matches[i + 1][1]
              /\ \A i \in DOMAIN top_matches :
                    \E j \in DOMAIN scored :
                       /\ scored[j][2] = top_matches[i][2]
                       /\ SurvivorRank(scored, j) < 2 * call.n

\* with n = 1 the candidate returned was penalized below the score of the
\* third survivor p3, which is outside the pool of 2
C21_Witness ==
    /\ call.op = "find_top_matches"
    /\ call.n = 1
    /\ call.user_input = PoolQuery
    /\ Len(top_matches) = 1
    /\ \E j \in DOMAIN ScoredResponses(PoolQuery) :
          /\ ScoredResponses(PoolQuery)[j][2].id = "p3"
          /\ SurvivorRank(ScoredResponses(PoolQuery), j) = 2
          /\ top_matches[1][1] < ScoredResponses(PoolQuery)[j][1]

\* the sum of the numerators of the weights
RECURSIVE SumNum(_)
SumNum(weights) == IF weights = <<>> THEN 0 ELSE Head(weights).num + SumNum(Tail(weights))

\* C22: a standard get_response selects one of the at most N candidates that
\* find_top_matches returns for the query in the history state of the call;
\* the draw weight of a candidate is its adjusted score over the sum of the
\* adjusted scores (the weights sum to 1), and every candidate can be drawn.
C22_WeightedDrawOverCandidates ==
    /\ \A user_input \in PoolInputs :
          \A matches \in {find_top_matches(user_input, top_n)} :
             matches # <<>>
                => /\ Len(matches) <= top_n
                   /\ \A c \in DOMAIN matches :
                         /\ Weights(matches)[c].den = SumNum(Weights(matches))
                         /\ Weights(matches)[c].num > 0
                         /\ ENABLED (/\ GetMatchedResponse(user_input, matches)
                                     /\ selected_response' = matches[c][2])
                   /\ ~ENABLED (/\ GetMatchedResponse(user_input, matches)
                                /\ \A c \in DOMAIN matches :
                                      selected_response' # matches[c][2])
    /\ (call.op = "get_response" /\ outcome = "match")
          => /\ \E c \in DOMAIN top_matches : selected_response = top_matches[c][2]
             /\ Len(recent_responses) < HistoryCapacity
                   => top_matches = TopMatchesWith(SubSeq(recent_responses, 1,
                                                          Len(recent_responses) - 1),
                                                   call.user_input, top_n)

\* the candidate of the lowest adjusted score among three was drawn
C22_Witness ==
    /\ call.op = "get_response"
    /\ outcome = "match"
    /\ Len(top_matches) = 3
    /\ selected_response = top_matches[3][2]
    /\ top_matches[3][1] < top_matches[1][1]

\* C23: apply_recency_penalty returns a list of the length of its input that
\* holds the same records in the same order; a candidate whose identifier is
\* not in the history keeps its score; the history is not modified.
C23_PenaltyFrame ==
    /\ [](\A user_input \in PoolInputs, n \in TopNs :
            \A pool \in {PenaltyPool(ScoredResponses(user_input), n)} :
               \A adjusted \in {apply_recency_penalty(pool, recent_responses,
                                                      recency_window)} :
                  /\ Len(adjusted) = Len(pool)
                  /\ \A c \in DOMAIN pool :
                        /\ adjusted[c][2] = pool[c][2]
                        /\ Get(pool[c][2], "id", "") \notin Range(recent_responses)
                              => adjusted[c][1] = pool[c][1])
    /\ [][call'.op = "find_top_matches" => recent_responses' = recent_responses]_vars

\* find_top_matches ran on a history that holds p1 and not p3: p3 kept its
\* score, p1 did not
C23_Witness ==
    /\ call.op = "find_top_matches"
    /\ call.user_input = PoolQuery
    /\ call.n = 5
    /\ "p1" \in Range(recent_responses)
    /\ "p3" \notin Range(recent_responses)
    /\ \E c \in DOMAIN top_matches :
          /\ top_matches[c][2].id = "p3"
          /\ top_matches[c][1] = ColdScore(top_matches[c][2], PoolQuery)
    /\ \E c \in DOMAIN top_matches :
          /\ top_matches[c][2].id = "p1"
          /\ top_matches[c][1] # ColdScore(top_matches[c][2], PoolQuery)

\* the sum of tenths/10 of the weight of every keyword of the set
RECURSIVE WeightedSum(_, _, _)
WeightedSum(keywords, weights, tenths) ==
    IF keywords = {}
    THEN 0
    ELSE LET keyword == CHOOSE k \in keywords : TRUE
         IN  (weights[keyword] * tenths) \div 10
               + WeightedSum(keywords \ {keyword}, weights, tenths)

\* the keywords of the record that are query tokens
ExactKeywords(user_tokens, response) == KeywordSet(response) \cap user_tokens

\* the other keywords of the record that share their stem with a query token
StemKeywords(user_tokens, response) ==
    {keyword \in KeywordSet(response) \ user_tokens :
        \E token \in user_tokens : simple_stem(token) = simple_stem(keyword)}

\* the score as the claim composes it
ClaimedScore(user_tokens, user_phrases, response, weights) ==
    LET keywords == KeywordSet(response)
        exact == ExactKeywords(user_tokens, response)
        stemmed == StemKeywords(user_tokens, response)
        bonus == Cardinality({phrase \in user_phrases :
                                 \A token \in tokenize(phrase) : token \in keywords})
    IN  IF exact \cup stemmed = {}
        THEN 0
        ELSE (WeightedSum(exact, weights, 10) + WeightedSum(stemmed, weights, 7)
                + bonus * (ONE \div 2)) \div Cardinality(keywords)

\* C24: score_response adds the weight of every keyword of the record that is
\* a query token, 0.7 times the weight of every other keyword that shares its
\* stem with a query token, and 0.5 for every query phrase whose tokens are
\* all keywords; when a keyword matched, it divides the sum by the number of
\* keywords of the record; the result is never negative.
C24_ScoreComposition ==
    call.op = "score_response"
       => /\ result = ClaimedScore(call.user_tokens, call.user_phrases, call.response,
                                   keyword_weights)
          /\ result >= 0
          /\ (/\ responses = MainData.responses
              /\ call.response.id = "c"
              /\ call.user_tokens = Tokens(BikeQuery))
                => result = ((Ln(3, 2) * 7) \div 10) \div 2
          /\ (/\ responses = PhraseData.responses
              /\ call.response.id = "h1"
              /\ call.user_tokens = Tokens(PhraseQuery)
              /\ call.user_phrases = {<<"m", "a", "c", "h", "i", "n", "e", " ", "l", "e", "a", "r", "n", "i", "n", "g">>})
                => result = (Ln(3, 2) + ONE \div 10 + ONE \div 2) \div 2

\* a record was scored that has one exact match, the phrase bonus and two
\* keywords, and a record that matched by stem only
C24_Witness ==
    /\ call.op = "score_response"
    /\ \/ /\ responses = PhraseData.responses
          /\ call.response.id = "h1"
          /\ call.user_tokens = Tokens(PhraseQuery)
          /\ call.user_phrases = {<<"m", "a", "c", "h", "i", "n", "e", " ", "l", "e", "a", "r", "n", "i", "n", "g">>}
          /\ result = (Ln(3, 2) + ONE \div 10 + ONE \div 2) \div 2
       \/ /\ responses = MainData.responses
          /\ call.response.id = "c"
          /\ ExactKeywords(call.user_tokens, call.response) = {}
          /\ StemKeywords(call.user_tokens, call.response) = {<<"c", "y", "c", "l", "e", "s">>}
          /\ result > 0

\* C25: score_response returns 0 when no keyword of the record matched the
\* query tokens, exactly or by stem, also when query phrases have all their
\* tokens among the keywords of the record.
C25_PhraseAloneScoresZero ==
    (/\ call.op = "score_response"
     /\ ExactKeywords(call.user_tokens, call.response) = {}
     /\ StemKeywords(call.user_tokens, call.response) = {})
       => result = 0

\* the phrase 'machine learning' earned the bonus with the record h1 and no
\* keyword matched
C25_Witness ==
    /\ call.op = "score_response"
    /\ Get(call.response, "id", "") = "h1"
    /\ call.user_tokens = {}
    /\ <<"m", "a", "c", "h", "i", "n", "e", " ", "l", "e", "a", "r", "n", "i", "n", "g">> \in call.user_phrases
    /\ tokenize(<<"m", "a", "c", "h", "i", "n", "e", " ", "l", "e", "a", "r", "n", "i", "n", "g">>) \subseteq KeywordSet(call.response)
    /\ result = 0

\* the word without its suffix number i
Stripped(word, i) == SubSeq(word, 1, Len(word) - Len(suffixes[i]))

\* the least number of a set of suffix numbers
First(numbers) == CHOOSE i \in numbers : \A j \in numbers : i <= j

\* the stem by the rule that only the first suffix the word ends with is tried
OneSuffixStem(word) ==
    LET ends == {i \in DOMAIN suffixes : EndsWith(word, suffixes[i])}
    IN  IF Len(word) <= 3 \/ ends = {}
        THEN word
        ELSE IF Len(Stripped(word, First(ends))) >= 3
             THEN Stripped(word, First(ends))
             ELSE word

\* the stem by the rule that the first suffix wins that the word ends with
\* and that leaves at least 3 characters
FirstLegalStem(word) ==
    LET legal == {i \in DOMAIN suffixes :
                     EndsWith(word, suffixes[i]) /\ Len(Stripped(word, i)) >= 3}
    IN  IF Len(word) <= 3 \/ legal = {} THEN word ELSE Stripped(word, First(legal))

\* C26 as stated: simple_stem tries exactly one suffix, the first of the
\* priority list the token ends with; when stripping it leaves fewer than 3
\* characters the token is returned unchanged and no later suffix is tried.
C26_OneSuffixOnly ==
    call.op = "simple_stem" => result = OneSuffixStem(call.word)

\* C26 as amended: simple_stem strips, from a token longer than 3
\* characters, the first suffix of the priority list that the token ends with
\* and whose removal leaves at least 3 characters; a suffix that would leave
\* fewer is passed over and the later ones are tried; the token is returned
\* unchanged when no suffix qualifies or when it has 3 characters or fewer.
C26_FirstSuffixLeavingStem ==
    call.op = "simple_stem"
       => /\ result = FirstLegalStem(call.word)
          /\ call.word = <<"r", "i", "n", "g", "s">> => result = <<"r", "i", "n", "g">>
          /\ call.word = <<"u", "s", "e", "d">> => result = <<"u", "s", "e", "d">>
          /\ call.word = <<"b", "e", "d">> => result = <<"b", "e", "d">>
          /\ call.word = <<"c", "y", "c", "l", "i", "n", "g">> => result = <<"c", "y", "c", "l">>

\* 'ties' ends with 'ies', which would leave 1 character, and with 'es',
\* which would leave 2: the later suffix 's' was stripped
C26_Witness ==
    /\ call.op = "simple_stem"
    /\ call.word = <<"t", "i", "e", "s">>
    /\ result = <<"t", "i", "e">>

\* C27: get_llm_response always returns a response: without LLM, and when the
\* LLM path raises, it returns what matcher.get_response returns for the
\* same input, with one call of get_response and at most one append to the
\* history.
C27_LlmFallbackReturns ==
    /\ [](call.op = "get_llm_response"
            => /\ outcome \in {"match", "fallback", "degraded"}
               /\ "response" \in DOMAIN result)
    /\ [][call'.op = "get_llm_response"
            => /\ Len(recorded') <= Len(recorded) + 1
               /\ Len(recent_responses') <= Len(recent_responses) + 1]_vars

\* C28: every adjusted score find_top_matches returns, in every reachable
\* history state, is positive, at least 0.3 times the threshold; the sum
\* get_response divides by is not zero and every draw weight is positive.
C28_AdjustedScoresPositive ==
    /\ \A c \in DOMAIN top_matches :
          /\ top_matches[c][1] > 0
          /\ top_matches[c][1] >= (threshold * 3) \div 10
          /\ Weights(top_matches)[c].num > 0
    /\ top_matches # <<>> => SumScores(top_matches) > 0
    /\ outcome # "ZeroDivisionError"

\* with a full history, a returned candidate was penalized below the
\* threshold and is still positive
C28_Witness ==
    /\ Len(recent_responses) = HistoryCapacity
    /\ call.op = "find_top_matches"
    /\ \E c \in DOMAIN top_matches :
          /\ top_matches[c][1] < threshold
          /\ top_matches[c][1] > 0

\* C29: in a corpus of 1 or 2 records every keyword weight is the floor 0.1;
\* for a query without fixed phrase every record scores at most 0.1, below
\* the threshold: find_top_matches returns the empty list, every standard
\* get_response ends in the fallback branch and the history stays empty.
C29_SmallCorpusNeverMatches ==
    Len(responses) \in {1, 2}
       => /\ \A keyword \in DOMAIN keyword_weights : keyword_weights[keyword] = ONE \div 10
          /\ \A user_input \in AllInputs :
                Phrases(user_input) = {}
                   => /\ \A r \in DOMAIN responses :
                            ColdScore(responses[r], user_input) <= ONE \div 10
                      /\ find_top_matches(user_input, top_n) = <<>>
          /\ (/\ call.op = "get_response"
              /\ call.response_type = "standard"
              /\ Phrases(call.user_input) = {})
                => /\ outcome \in {"fallback", "degraded"}
                   /\ top_matches = <<>>
          /\ (\A user_input \in UserInputs : Phrases(user_input) = {})
                => recent_responses = <<>>

\* the query about the bike met the record with the keywords bike and ride in
\* the corpus of two records: it scored 0.1 and the fallback branch answered
C29_Witness ==
    /\ responses = BikeData.responses
    /\ call.op = "get_response"
    /\ call.response_type = "standard"
    /\ call.user_input = BikeQuery
    /\ ColdScore(responses[1], BikeQuery) = ONE \div 10
    /\ outcome \in {"fallback", "degraded"}
    /\ recent_responses = <<>>

\* C30: the history never holds the empty identifier: a selected record
\* whose identifier is missing or empty is not appended and is never
\* penalized, it keeps its full score on every later query.
C30_NoEmptyIdentifier ==
    /\ [](/\ \A i \in DOMAIN recent_responses : recent_responses[i] # ""
          /\ (\/ call.op = "find_top_matches"
              \/ call.op = "get_response" /\ call.response_type = "standard")
                => \A c \in DOMAIN top_matches :
                      Get(top_matches[c][2], "id", "") = ""
                         => top_matches[c][1] = ColdScore(top_matches[c][2], call.user_input))
    /\ [][(/\ call'.op = "get_response"
           /\ outcome' = "match"
           /\ Get(selected_response', "id", "") = "")
             => recent_responses' = recent_responses]_vars

\* a record without identifier was drawn from a list in which it had its
\* full score and the record n3, which is in the history, had not
C30_Witness ==
    /\ call.op = "get_response"
    /\ outcome = "match"
    /\ "id" \notin DOMAIN selected_response
    /\ "n3" \in Range(recent_responses)
    /\ \E c \in DOMAIN top_matches :
          /\ top_matches[c][2] = selected_response
          /\ top_matches[c][1] = ColdScore(selected_response, call.user_input)
    /\ \E c \in DOMAIN top_matches :
          /\ Get(top_matches[c][2], "id", "") = "n3"
          /\ top_matches[c][1] < ColdScore(top_matches[c][2], call.user_input)

====
